---------------------------- MODULE Spec2Model ----------------------------
(***************************************************************************)
(* Model of the transcription relay: TranscriptionProxy (src/src/proxy.ts)  *)
(* driving the audio batcher OpenAIClient (src/unnamed/part_000) and the    *)
(* persistence call appendTranscription (src/src/callDataService.ts).       *)
(*                                                                         *)
(* Scheduling is Node's: a handler (macrotask) runs to completion, then    *)
(* the microtask queue drains before the next macrotask starts.  Every     *)
(* macrotask action is therefore guarded by an empty microtask queue.      *)
(*                                                                         *)
(* Specifications: Spec (audio pipeline), SpecRelay (all message shapes),  *)
(* SpecBots and SpecBotsAudio (several Bot registrations), SpecWav         *)
(* (getWavHeader on its own), SpecLive (Spec with the fairness Node's      *)
(* event loop gives timers, backend answers and continuations).            *)
(***************************************************************************)
EXTENDS Integers, Sequences, FiniteSets, TLC

\* ------------------------------------------------------------------ bounds
MaxConns == 2        \* connections the relay accepts in one run
MaxBotConns == 3     \* the same, in the runs with several Bot registrations
MaxMsgs == 4         \* messages the relay receives in one run

\* Connection identities; a run accepts the first MaxConns or MaxBotConns.
Conns == 1..(IF MaxBotConns > MaxConns THEN MaxBotConns ELSE MaxConns)
NoConn == 0          \* null connection reference
NoTimer == 0         \* null interval handle

\* proxyConfig.audioParams (config module): one deployment-wide setting
SampleRate == 16000
NumChannels == 1
BitsPerSample == 16

\* ---------------------------------------------------------------- messages
\* A message is what ws hands to a handler: a Buffer or a string, with a
\* payload.  Payloads are named; chunk distinguishes raw audio chunks.
Payloads ==
  {"REG_BOT", "REG_MEETING", "NULL", "TEXT", "SPK_A_ON", "SPK_A_OFF",
   "SPK_B_ON", "ARR_NUM", "PCM"}

Message(b, p, k) == [isBuffer |-> b, body |-> p, chunk |-> k]

\* Result of JSON.parse(message.toString()): ok = FALSE is a SyntaxError.
\*   REG_BOT      {"type":"register","client":"bot"}
\*   REG_MEETING  {"type":"register","client":"meeting"}
\*   NULL         null
\*   TEXT         {"type":"text","data":{"text":"hi"}}
\*   SPK_x_ON/OFF [{"name":"x","id":1,"timestamp":0,"isSpeaking":true/false}]
\*   ARR_NUM      [1]
\*   PCM          raw audio bytes, not JSON
JSONParse(p) ==
  CASE p = "REG_BOT" ->
         [ok |-> TRUE, kind |-> "object", type |-> "register", client |-> "bot",
          name |-> "", isSpeaking |-> FALSE]
    [] p = "REG_MEETING" ->
         [ok |-> TRUE, kind |-> "object", type |-> "register",
          client |-> "meeting", name |-> "", isSpeaking |-> FALSE]
    [] p = "NULL" ->
         [ok |-> TRUE, kind |-> "null", type |-> "", client |-> "",
          name |-> "", isSpeaking |-> FALSE]
    [] p = "TEXT" ->
         [ok |-> TRUE, kind |-> "object", type |-> "text", client |-> "",
          name |-> "", isSpeaking |-> FALSE]
    [] p = "SPK_A_ON" ->
         [ok |-> TRUE, kind |-> "speakers", type |-> "", client |-> "",
          name |-> "A", isSpeaking |-> TRUE]
    [] p = "SPK_A_OFF" ->
         [ok |-> TRUE, kind |-> "speakers", type |-> "", client |-> "",
          name |-> "A", isSpeaking |-> FALSE]
    [] p = "SPK_B_ON" ->
         [ok |-> TRUE, kind |-> "speakers", type |-> "", client |-> "",
          name |-> "B", isSpeaking |-> TRUE]
    [] p = "ARR_NUM" ->
         [ok |-> TRUE, kind |-> "numbers", type |-> "", client |-> "",
          name |-> "", isSpeaking |-> FALSE]
    [] OTHER ->
         [ok |-> FALSE, kind |-> "", type |-> "", client |-> "",
          name |-> "", isSpeaking |-> FALSE]

\* message.toString(): a Buffer is decoded as UTF-8 into a string; raw audio
\* bytes do not survive the decoding unchanged.
toString(m) ==
  [isBuffer |-> FALSE,
   body |-> IF m.isBuffer /\ m.body = "PCM" THEN "PCM_UTF8" ELSE m.body,
   chunk |-> m.chunk]

\* The bytes of raw audio chunk k: 1 or 2 bytes, all equal to k.
ChunkBytes(k) == [i \in 1..(1 + (k % 2)) |-> k]

\* -------------------------------------------------------------- WAV header
LE16(n) == <<n % 256, (n \div 256) % 256>>
LE32(n) ==
  <<n % 256, (n \div 256) % 256, (n \div 65536) % 256, (n \div 16777216) % 256>>

\* Variant: ChunkSize counts the whole file, 44 + dataLength.
getWavHeaderWholeFile(dataLength, sampleRate, numChannels, bitsPerSample) ==
  <<82, 73, 70, 70>> \o LE32(44 + dataLength) \o <<87, 65, 86, 69>>
    \o <<102, 109, 116, 32>> \o LE32(16) \o LE16(1) \o LE16(numChannels)
    \o LE32(sampleRate)
    \o LE32(sampleRate * numChannels * (bitsPerSample \div 8))
    \o LE16(numChannels * (bitsPerSample \div 8)) \o LE16(bitsPerSample)
    \o <<100, 97, 116, 97>> \o LE32(dataLength)

\* getWavHeader: a 44-byte Buffer written field by field
getWavHeader(dataLength, sampleRate, numChannels, bitsPerSample) ==
  <<82, 73, 70, 70>> \o LE32(36 + dataLength) \o <<87, 65, 86, 69>>
    \o <<102, 109, 116, 32>> \o LE32(16) \o LE16(1) \o LE16(numChannels)
    \o LE32(sampleRate)
    \o LE32(sampleRate * numChannels * (bitsPerSample \div 8))
    \o LE16(numChannels * (bitsPerSample \div 8)) \o LE16(bitsPerSample)
    \o <<100, 97, 116, 97>> \o LE32(dataLength)

RECURSIVE Concat(_)
\* Buffer.concat: the chunks' bytes in list order
Concat(chunks) ==
  IF chunks = <<>> THEN <<>> ELSE Head(chunks) \o Concat(Tail(chunks))

\* ------------------------------------------------------------------- state
VARIABLES
  connState,              \* per connection: "none", "open", "closing", "closed"
  role,                   \* per connection: "Unassigned", "Bot", "Meeting"
  handlers,               \* per connection: role handlers attached to it
  firstMsg,               \* per connection: payload of its first message
  botRegistrations,       \* connections set up as Bot so far, in order
  botClient,              \* TranscriptionProxy.botClient
  meetingBaasClients,     \* TranscriptionProxy.meetingBaasClients
  isGladiaSessionActive,  \* TranscriptionProxy.isGladiaSessionActive
  lastSpeaker,            \* TranscriptionProxy.lastSpeaker ("" is null)
  activeBotId,            \* TranscriptionProxy.activeBotId is set
  audioBuffer,            \* OpenAIClient.audioBuffer: list of chunk ids
  isProcessing,           \* OpenAIClient.isProcessing
  processingInterval,     \* OpenAIClient.processingInterval
  timers,                 \* interval timers armed in the event loop
  nextTimer,              \* next interval handle setInterval returns
  tempDirExists,          \* the scratch directory exists
  files,                  \* scratch files in the directory
  flights,                \* flushes suspended in the backend call
  nextFlush,              \* id of the next flush that stages a file
  micro,                  \* microtask queue
  persist,                \* appendTranscription calls not yet settled
  botSent,                \* everything sent to a Bot connection, in order
  meetingSent,            \* everything sent to Meeting connections, in order
  answers,                \* the backend's answers to flushes, in order
  emitted,                \* Transcript Events the batcher emitted, in order
  botsAtEmit,             \* per emitted event: Bot registrations before it
  speakerLog,             \* names logged as "New speaker", in order
  persistLog,             \* appendTranscription calls settled, in order
  wavArgs,                \* arguments of a getWavHeader call
  wavHeader,              \* the Buffer the call returned (<<>>: not called)
  shutdownPc,             \* "idle", "awaiting", "closing", "done"
  nextChunk,              \* id of the next raw audio chunk
  msgCount                \* messages received so far

connVars == <<connState, role, handlers, firstMsg, botRegistrations>>
proxyVars ==
  <<botClient, meetingBaasClients, isGladiaSessionActive, lastSpeaker,
    activeBotId>>
batcherVars ==
  <<audioBuffer, isProcessing, processingInterval, timers, nextTimer,
    tempDirExists, files, flights, nextFlush>>
logVars ==
  <<botSent, meetingSent, answers, emitted, botsAtEmit, speakerLog,
    persistLog>>
wavVars == <<wavArgs, wavHeader>>
vars ==
  <<connVars, proxyVars, batcherVars, logVars, wavVars, micro, persist,
    shutdownPc, nextChunk, msgCount>>

\* ----------------------------------------------------------------- batcher
\* The batcher and the resources it touches, as one value the operations
\* below transform.
Batcher ==
  [audioBuffer |-> audioBuffer, isProcessing |-> isProcessing,
   processingInterval |-> processingInterval, timers |-> timers,
   nextTimer |-> nextTimer, tempDirExists |-> tempDirExists, files |-> files,
   flights |-> flights, nextFlush |-> nextFlush]

SetBatcher(b) ==
  /\ audioBuffer' = b.audioBuffer
  /\ isProcessing' = b.isProcessing
  /\ processingInterval' = b.processingInterval
  /\ timers' = b.timers
  /\ nextTimer' = b.nextTimer
  /\ tempDirExists' = b.tempDirExists
  /\ files' = b.files
  /\ flights' = b.flights
  /\ nextFlush' = b.nextFlush

\* OpenAIClient.initSession: setInterval, handle stored; resolves true.
initSession(b) ==
  [b EXCEPT !.processingInterval = b.nextTimer,
            !.timers = b.timers \cup {b.nextTimer},
            !.nextTimer = b.nextTimer + 1]

\* Variant: no check of isProcessing before a flush starts.
processAudioBufferNoSkip(b) ==
  IF Len(b.audioBuffer) = 0 THEN b
  ELSE IF ~b.tempDirExists
    THEN [b EXCEPT !.audioBuffer = <<>>, !.isProcessing = FALSE]
  ELSE LET raw == Concat([i \in 1..Len(b.audioBuffer) |->
                            ChunkBytes(b.audioBuffer[i])])
           wav == getWavHeader(Len(raw), SampleRate, NumChannels,
                               BitsPerSample) \o raw
       IN [b EXCEPT !.audioBuffer = <<>>,
                    !.isProcessing = TRUE,
                    !.files = b.files \cup {b.nextFlush},
                    !.flights = b.flights \cup
                      {[id |-> b.nextFlush, chunks |-> b.audioBuffer,
                        wav |-> wav]},
                    !.nextFlush = b.nextFlush + 1]

\* OpenAIClient.processAudioBuffer up to its await: the check-and-skip, the
\* swap of the segment, the staging of the scratch file and the submission.
\* writeFileSync throws when the scratch directory is gone; the catch logs
\* and the finally clears isProcessing.
processAudioBuffer(b) ==
  IF b.isProcessing \/ Len(b.audioBuffer) = 0 THEN b
  ELSE IF ~b.tempDirExists
    THEN [b EXCEPT !.audioBuffer = <<>>, !.isProcessing = FALSE]
  ELSE LET raw == Concat([i \in 1..Len(b.audioBuffer) |->
                            ChunkBytes(b.audioBuffer[i])])
           wav == getWavHeader(Len(raw), SampleRate, NumChannels,
                               BitsPerSample) \o raw
       IN [b EXCEPT !.audioBuffer = <<>>,
                    !.isProcessing = TRUE,
                    !.files = b.files \cup {b.nextFlush},
                    !.flights = b.flights \cup
                      {[id |-> b.nextFlush, chunks |-> b.audioBuffer,
                        wav |-> wav]},
                    !.nextFlush = b.nextFlush + 1]

\* OpenAIClient.sendAudioChunk
sendAudioChunk(b, k) == [b EXCEPT !.audioBuffer = Append(b.audioBuffer, k)]

\* OpenAIClient.endSession: clear the interval, start (not await) a flush of
\* what is pending, then empty and remove the scratch directory.  readdirSync
\* throws when the directory is gone; the catch logs.
endSession(b) ==
  LET b1 == IF b.processingInterval # NoTimer
              THEN [b EXCEPT !.timers = b.timers \ {b.processingInterval},
                             !.processingInterval = NoTimer]
              ELSE b
      b2 == IF Len(b1.audioBuffer) > 0 THEN processAudioBuffer(b1) ELSE b1
  IN IF b2.tempDirExists
       THEN [b2 EXCEPT !.files = {}, !.tempDirExists = FALSE]
       ELSE b2

\* ------------------------------------------------------------ initial state
\* The relay after `new TranscriptionProxy(botId)`
Constructed ==
  /\ connState = [c \in Conns |-> "none"]
  /\ role = [c \in Conns |-> "Unassigned"]
  /\ handlers = [c \in Conns |-> {}]
  /\ firstMsg = [c \in Conns |-> ""]
  /\ botRegistrations = <<>>
  /\ botClient = NoConn
  /\ meetingBaasClients = {}
  /\ isGladiaSessionActive = FALSE
  /\ lastSpeaker = ""
  /\ activeBotId \in BOOLEAN
  /\ audioBuffer = <<>>
  /\ isProcessing = FALSE
  /\ processingInterval = NoTimer
  /\ timers = {}
  /\ nextTimer = 1
  /\ tempDirExists = TRUE
  /\ files = {}
  /\ flights = {}
  /\ nextFlush = 1
  /\ micro = <<>>
  /\ persist = {}
  /\ botSent = <<>>
  /\ meetingSent = [c \in Conns |-> <<>>]
  /\ answers = <<>>
  /\ emitted = <<>>
  /\ botsAtEmit = <<>>
  /\ speakerLog = <<>>
  /\ persistLog = <<>>
  /\ shutdownPc = "idle"
  /\ nextChunk = 1
  /\ msgCount = 0

\* Arguments getWavHeader is called with on its own
DataLengths == {0, 1, 255, 256, 32000, 65535, 65536, 16777216}
SampleRates == {8000, 16000, 44100, 48000}
ChannelCounts == {1, 2}

Init ==
  /\ Constructed
  /\ wavArgs = [dataLength |-> 0, sampleRate |-> SampleRate,
                numChannels |-> NumChannels]
  /\ wavHeader = <<>>

InitWav ==
  /\ Constructed
  /\ wavArgs \in [dataLength : DataLengths, sampleRate : SampleRates,
                  numChannels : ChannelCounts]
  /\ wavHeader = <<>>

\* A handler may start: the process runs and no microtask is pending.
Idle == micro = <<>> /\ shutdownPc # "done"

IsOpen(c) == c # NoConn /\ connState[c] = "open"

\* ------------------------------------------------------------- connections
\* server.on("connection"): a connection is accepted while the server
\* listens.  Connections are numbered in the order they are accepted.
Connect(c) ==
  /\ Idle
  /\ shutdownPc = "idle"
  /\ connState[c] = "none"
  /\ \A d \in Conns : d < c => connState[d] # "none"
  /\ connState' = [connState EXCEPT ![c] = "open"]
  /\ UNCHANGED <<role, handlers, firstMsg, botRegistrations, proxyVars,
                 wavVars, batcherVars, logVars, micro, persist, shutdownPc,
                 nextChunk, msgCount>>

\* Variant: `||` in place of `&&` in the test of msg.type and msg.client.
ClassifyFirstEither(m) ==
  LET msg == JSONParse(toString(m).body)
  IN IF ~msg.ok THEN "Meeting"
     ELSE IF msg.kind = "null" THEN "Meeting"
     ELSE IF msg.type = "register" \/ msg.client = "bot" THEN "Bot"
     ELSE "Meeting"

\* The connection handler's try/catch around JSON.parse and the test of
\* msg.type and msg.client: reading .type of null throws and is caught.
ClassifyFirst(m) ==
  LET msg == JSONParse(toString(m).body)
  IN IF ~msg.ok THEN "Meeting"
     ELSE IF msg.kind = "null" THEN "Meeting"
     ELSE IF msg.type = "register" /\ msg.client = "bot" THEN "Bot"
     ELSE "Meeting"

\* Variant: a session is started on every Meeting registration.
NeedsInitAlways(active) == TRUE

\* if (!this.isGladiaSessionActive) in setupMeetingBaasClient
NeedsInit(active) == ~active

\* ws.once("message"): classify, then setupBotClient or setupMeetingBaasClient
FirstMessage(c, m) ==
  /\ Idle
  /\ connState[c] = "open"
  /\ role[c] = "Unassigned"
  /\ msgCount < MaxMsgs
  /\ msgCount' = msgCount + 1
  /\ firstMsg' = [firstMsg EXCEPT ![c] = m.body]
  /\ IF ClassifyFirst(m) = "Bot"
       THEN \* setupBotClient
            /\ role' = [role EXCEPT ![c] = "Bot"]
            /\ handlers' = [handlers EXCEPT ![c] = @ \cup {"bot"}]
            /\ botClient' = c
            /\ botRegistrations' = Append(botRegistrations, c)
            /\ UNCHANGED <<meetingBaasClients, batcherVars, micro>>
       ELSE \* setupMeetingBaasClient
            /\ role' = [role EXCEPT ![c] = "Meeting"]
            /\ handlers' = [handlers EXCEPT ![c] = @ \cup {"meeting"}]
            /\ meetingBaasClients' = meetingBaasClients \cup {c}
            /\ IF NeedsInit(isGladiaSessionActive)
                 THEN /\ SetBatcher(initSession(Batcher))
                      /\ micro' = Append(micro, "initThen")
                 ELSE UNCHANGED <<batcherVars, micro>>
            /\ UNCHANGED <<botClient, botRegistrations>>
  /\ UNCHANGED <<connState, isGladiaSessionActive, lastSpeaker, activeBotId,
                 wavVars, logVars, persist, shutdownPc, nextChunk>>

\* initSession().then((success) => { this.isGladiaSessionActive = success })
InitThen ==
  /\ micro # <<>>
  /\ Head(micro) = "initThen"
  /\ micro' = Tail(micro)
  /\ isGladiaSessionActive' = TRUE
  /\ UNCHANGED <<connVars, botClient, meetingBaasClients, lastSpeaker,
                 activeBotId, wavVars, batcherVars, logVars, persist,
                 shutdownPc, nextChunk, msgCount>>

\* The transport of a connection leaves OPEN (peer closes or the link drops);
\* its "close" event has not been emitted yet.
PeerClose(c) ==
  /\ Idle
  /\ connState[c] = "open"
  /\ connState' = [connState EXCEPT ![c] = "closing"]
  /\ UNCHANGED <<role, handlers, firstMsg, botRegistrations, proxyVars,
                 wavVars, batcherVars, logVars, micro, persist, shutdownPc,
                 nextChunk, msgCount>>

\* Variant: the session is ended when any Meeting connection closes.
ShouldEndOnAnyClose(clients, active) == active

\* Variant: the session flag is not tested before the session is ended.
ShouldEndWhenEmpty(clients, active) == Cardinality(clients) = 0

\* if (this.meetingBaasClients.size === 0 && this.isGladiaSessionActive)
ShouldEnd(clients, active) == Cardinality(clients) = 0 /\ active

\* Variant: the close handler empties the Meeting set.
deleteAll(clients, ws) == {}

\* this.meetingBaasClients.delete(ws)
delete(clients, ws) == clients \ {ws}

\* ws.on("close") of the role handlers attached to the connection
CloseEvent(c) ==
  /\ Idle
  /\ connState[c] = "closing"
  /\ connState' = [connState EXCEPT ![c] = "closed"]
  /\ botClient' = IF "bot" \in handlers[c] THEN NoConn ELSE botClient
  /\ meetingBaasClients' =
       IF "meeting" \in handlers[c] THEN delete(meetingBaasClients, c)
       ELSE meetingBaasClients
  /\ IF "meeting" \in handlers[c]
        /\ ShouldEnd(meetingBaasClients', isGladiaSessionActive)
       THEN /\ SetBatcher(endSession(Batcher))
            /\ isGladiaSessionActive' = FALSE
       ELSE UNCHANGED <<batcherVars, isGladiaSessionActive>>
  /\ UNCHANGED <<role, handlers, firstMsg, botRegistrations, lastSpeaker,
                 activeBotId, wavVars, logVars, micro, persist, shutdownPc,
                 nextChunk, msgCount>>

\* ---------------------------------------------------------------- messages
SendToBot(log, entry) ==
  IF IsOpen(botClient) THEN Append(log, [entry EXCEPT !.to = botClient])
  ELSE log

\* What a forwarded message looks like in a log of sends
Forwarded(m) ==
  [to |-> NoConn, kind |-> "message", body |-> toString(m).body,
   n |-> m.chunk, isFinal |-> FALSE]

\* The JSON transcription message for a Transcript Event of flush n
Transcription(n, text, isFinal) ==
  [to |-> NoConn, kind |-> "transcription", body |-> text, n |-> n,
   isFinal |-> isFinal]

\* Variant: the fan-out does not test readyState.
FanOutTargetsAll(clients) == clients

\* this.meetingBaasClients.forEach: the clients whose readyState is OPEN
FanOutTargets(clients) == {d \in clients : connState[d] = "open"}

\* setupBotClient ws.on("message"): fan out to every open Meeting connection
BotMessage(c, m) ==
  /\ Idle
  /\ connState[c] = "open"
  /\ "bot" \in handlers[c]
  /\ msgCount < MaxMsgs
  /\ msgCount' = msgCount + 1
  /\ meetingSent' =
       [d \in Conns |->
          IF d \in FanOutTargets(meetingBaasClients)
            THEN Append(meetingSent[d], toString(m).body)
            ELSE meetingSent[d]]
  /\ UNCHANGED <<connState, role, handlers, firstMsg, botRegistrations,
                 proxyVars, wavVars, batcherVars, botSent, answers, emitted,
                 botsAtEmit, speakerLog, persistLog, micro, persist,
                 shutdownPc, nextChunk>>

\* The branch the Meeting message handler takes for a message:
\* "speaker", "log" or "audio" (the catch of the try around JSON.parse and
\* the shape test; `"name" in 1` throws a TypeError and lands there too).
MeetingBranch(m) ==
  IF ~m.isBuffer THEN "log"
  ELSE LET jsonData == JSONParse(toString(m).body)
       IN IF ~jsonData.ok THEN "audio"
          ELSE IF jsonData.kind = "numbers" THEN "audio"
          ELSE IF jsonData.kind = "speakers" THEN "speaker"
          ELSE "log"

\* Variant: the name is not compared with the current Speaker State.
IsNewSpeakerWheneverSpeaking(speakerInfo, last) == speakerInfo.isSpeaking

\* speakerInfo.isSpeaking &&
\* (this.lastSpeaker === null || this.lastSpeaker !== speakerInfo.name)
IsNewSpeaker(speakerInfo, last) ==
  speakerInfo.isSpeaking /\ (last = "" \/ last # speakerInfo.name)

\* setupMeetingBaasClient ws.on("message")
MeetingMessage(c, m) ==
  /\ Idle
  /\ connState[c] = "open"
  /\ "meeting" \in handlers[c]
  /\ msgCount < MaxMsgs
  /\ msgCount' = msgCount + 1
  /\ nextChunk' = IF m.body = "PCM" THEN nextChunk + 1 ELSE nextChunk
  /\ LET speakerInfo == JSONParse(toString(m).body)
     IN IF MeetingBranch(m) = "speaker"
             /\ IsNewSpeaker(speakerInfo, lastSpeaker)
          THEN /\ lastSpeaker' = speakerInfo.name
               /\ speakerLog' = Append(speakerLog, speakerInfo.name)
          ELSE UNCHANGED <<lastSpeaker, speakerLog>>
  /\ IF MeetingBranch(m) = "audio" /\ isGladiaSessionActive
       THEN SetBatcher(sendAudioChunk(Batcher, m.chunk))
       ELSE UNCHANGED batcherVars
  /\ botSent' = SendToBot(botSent, Forwarded(m))
  /\ UNCHANGED <<connState, role, handlers, firstMsg, botRegistrations,
                 botClient, meetingBaasClients, isGladiaSessionActive,
                 activeBotId, wavVars, meetingSent, answers, emitted,
                 botsAtEmit, persistLog, micro, persist, shutdownPc>>

\* ------------------------------------------------------------------ flushes
\* setInterval(() => this.processAudioBuffer(), 5000) fires
TimerFire(t) ==
  /\ Idle
  /\ t \in timers
  /\ SetBatcher(processAudioBuffer(Batcher))
  /\ UNCHANGED <<connVars, proxyVars, wavVars, logVars, micro, persist,
                 shutdownPc, nextChunk, msgCount>>

Answer(f, ok, text) == [id |-> f.id, ok |-> ok, text |-> text]

\* processAudioBuffer after its await, when axios.post rejects: the catch
\* logs, the finally clears isProcessing; unlinkSync is not reached.
BackendFail(f) ==
  /\ Idle
  /\ f \in flights
  /\ flights' = flights \ {f}
  /\ isProcessing' = FALSE
  /\ answers' = Append(answers, Answer(f, FALSE, ""))
  /\ UNCHANGED <<connVars, proxyVars, wavVars, audioBuffer,
                 processingInterval, timers, nextTimer, tempDirExists, files,
                 nextFlush, botSent, meetingSent, emitted, botsAtEmit,
                 speakerLog, persistLog, micro, persist, shutdownPc,
                 nextChunk, msgCount>>

\* Variant: a Transcript Event is emitted whatever the text.
HasTextAlways(text) == TRUE

\* The test that guards the emission of a Transcript Event:
\* response.data && response.data.text
HasText(text) == text # ""

\* processAudioBuffer after its await, when axios.post resolves with text:
\* unlinkSync (throws when the file is gone, which skips to the catch), the
\* onTranscription callback up to its await, the finally.
BackendOk(f, text) ==
  /\ Idle
  /\ f \in flights
  /\ flights' = flights \ {f}
  /\ isProcessing' = FALSE
  /\ files' = files \ {f.id}
  /\ answers' = Append(answers, Answer(f, TRUE, text))
  /\ IF f.id \in files /\ HasText(text)
       THEN /\ emitted' = Append(emitted, Transcription(f.id, text, TRUE))
            /\ botsAtEmit' = Append(botsAtEmit, Len(botRegistrations))
            /\ IF activeBotId
                 THEN /\ persist' =
                           persist \cup {Transcription(f.id, text, TRUE)}
                      /\ UNCHANGED botSent
                 ELSE /\ botSent' =
                           SendToBot(botSent, Transcription(f.id, text, TRUE))
                      /\ UNCHANGED persist
       ELSE UNCHANGED <<emitted, botsAtEmit, persist, botSent>>
  /\ UNCHANGED <<connVars, proxyVars, wavVars, audioBuffer,
                 processingInterval, timers, nextTimer, tempDirExists,
                 nextFlush, meetingSent, speakerLog, persistLog, micro,
                 shutdownPc, nextChunk, msgCount>>

\* appendTranscription settles, the database calls having succeeded (ok) or
\* thrown (it catches its own errors and resolves), and the onTranscription
\* callback resumes: send to the Bot if it is open.
PersistDone(e, ok) ==
  /\ Idle
  /\ e \in persist
  /\ persist' = persist \ {e}
  /\ persistLog' = Append(persistLog, [n |-> e.n, text |-> e.body, ok |-> ok])
  /\ botSent' = SendToBot(botSent, e)
  /\ UNCHANGED <<connVars, proxyVars, wavVars, batcherVars, meetingSent,
                 answers, emitted, botsAtEmit, speakerLog, micro, shutdownPc,
                 nextChunk, msgCount>>

\* ----------------------------------------------------------------- shutdown
\* The tail of TranscriptionProxy.shutdown: close every open Meeting
\* connection, close the Bot connection if open, server.close.
CloseAll ==
  /\ connState' =
       [c \in Conns |->
          IF (c \in meetingBaasClients \/ c = botClient)
               /\ connState[c] = "open"
            THEN "closing" ELSE connState[c]]
  /\ shutdownPc' = "closing"

\* TranscriptionProxy.shutdown up to its await (or to its end when the
\* session is not active)
Shutdown ==
  /\ Idle
  /\ shutdownPc = "idle"
  /\ IF isGladiaSessionActive
       THEN /\ SetBatcher(endSession(Batcher))
            /\ micro' = Append(micro, "shutdownResume")
            /\ shutdownPc' = "awaiting"
            /\ UNCHANGED connState
       ELSE /\ CloseAll
            /\ UNCHANGED <<batcherVars, micro>>
  /\ UNCHANGED <<role, handlers, firstMsg, botRegistrations, proxyVars,
                 wavVars, logVars, persist, nextChunk, msgCount>>

\* TranscriptionProxy.shutdown after `await this.gladiaClient.endSession()`
ShutdownResume ==
  /\ micro # <<>>
  /\ Head(micro) = "shutdownResume"
  /\ micro' = Tail(micro)
  /\ isGladiaSessionActive' = FALSE
  /\ CloseAll
  /\ UNCHANGED <<role, handlers, firstMsg, botRegistrations, botClient,
                 meetingBaasClients, lastSpeaker, activeBotId, wavVars,
                 batcherVars, logVars, persist, nextChunk, msgCount>>

\* The callback of server.close: every connection has ended
ShutdownDone ==
  /\ Idle
  /\ shutdownPc = "closing"
  /\ \A c \in Conns : connState[c] \in {"none", "closed"}
  /\ shutdownPc' = "done"
  /\ UNCHANGED <<connVars, proxyVars, wavVars, batcherVars, logVars, micro,
                 persist, nextChunk, msgCount>>

\* ------------------------------------------------------------ specification
\* Inputs of the audio pipeline: a Bot registration or raw audio as first
\* message, raw audio chunks from Meeting connections, text from the Bot,
\* the backend failing or answering with empty or non-empty text, and
\* persistence calls that succeed.
FirstMsgs == {Message(FALSE, "REG_BOT", 0), Message(TRUE, "PCM", 0)}
MeetingMsgs == {Message(TRUE, "PCM", nextChunk)}
BotMsgs == {Message(FALSE, "TEXT", 0)}
Texts == {"", "hi"}

Next ==
  \/ \E c \in 1..MaxConns : Connect(c)
  \/ \E c \in Conns : \E m \in FirstMsgs : FirstMessage(c, m)
  \/ InitThen
  \/ \E c \in Conns : PeerClose(c)
  \/ \E c \in Conns : CloseEvent(c)
  \/ \E c \in Conns : \E m \in BotMsgs : BotMessage(c, m)
  \/ \E c \in Conns : \E m \in MeetingMsgs : MeetingMessage(c, m)
  \/ \E t \in timers : TimerFire(t)
  \/ \E f \in flights : BackendFail(f)
  \/ \E f \in flights : \E text \in Texts : BackendOk(f, text)
  \/ \E e \in persist : PersistDone(e, TRUE)
  \/ Shutdown
  \/ ShutdownResume
  \/ ShutdownDone

Spec == Init /\ [][Next]_vars

\* Inputs of the relay: every shape of first message and of Meeting message,
\* in a run shorter than one timer interval (no timer fires) that no
\* shutdown request interrupts.
RelayFirstMsgs ==
  {Message(FALSE, "REG_BOT", 0), Message(TRUE, "REG_BOT", 0),
   Message(FALSE, "REG_MEETING", 0), Message(FALSE, "NULL", 0),
   Message(TRUE, "PCM", 0)}
RelayMeetingMsgs ==
  {Message(TRUE, "PCM", nextChunk), Message(TRUE, "SPK_A_ON", 0),
   Message(TRUE, "SPK_A_OFF", 0), Message(TRUE, "SPK_B_ON", 0),
   Message(TRUE, "ARR_NUM", 0), Message(FALSE, "TEXT", 0)}

NextRelay ==
  \/ \E c \in 1..MaxConns : Connect(c)
  \/ \E c \in Conns : \E m \in RelayFirstMsgs : FirstMessage(c, m)
  \/ InitThen
  \/ \E c \in Conns : PeerClose(c)
  \/ \E c \in Conns : CloseEvent(c)
  \/ \E c \in Conns : \E m \in BotMsgs : BotMessage(c, m)
  \/ \E c \in Conns : \E m \in RelayMeetingMsgs : MeetingMessage(c, m)

SpecRelay == Init /\ [][NextRelay]_vars

\* getWavHeader called on its own with the arguments drawn at the start
WriteHeader ==
  /\ wavHeader = <<>>
  /\ wavHeader' = getWavHeader(wavArgs.dataLength, wavArgs.sampleRate,
                               wavArgs.numChannels, BitsPerSample)
  /\ UNCHANGED <<connVars, proxyVars, batcherVars, logVars, wavArgs, micro,
                 persist, shutdownPc, nextChunk, msgCount>>

NextWav == WriteHeader

SpecWav == InitWav /\ [][NextWav]_vars

\* Inputs of the runs with several Bot registrations: connections register
\* as Bot or as Meeting, Meeting connections send text and raw audio, Bots
\* send text; no timer fires and no shutdown is requested.
BotsMeetingMsgs == {Message(FALSE, "TEXT", 0), Message(TRUE, "PCM", nextChunk)}

NextBots ==
  \/ \E c \in 1..MaxBotConns : Connect(c)
  \/ \E c \in Conns : \E m \in FirstMsgs : FirstMessage(c, m)
  \/ InitThen
  \/ \E c \in Conns : PeerClose(c)
  \/ \E c \in Conns : CloseEvent(c)
  \/ \E c \in Conns : \E m \in BotMsgs : BotMessage(c, m)
  \/ \E c \in Conns : \E m \in BotsMeetingMsgs : MeetingMessage(c, m)

SpecBots == Init /\ [][NextBots]_vars

\* The same runs with the audio pipeline: timers fire, the backend answers
\* every flush with text, and persistence calls succeed or fail.
NextBotsAudio ==
  \/ NextBots
  \/ \E t \in timers : TimerFire(t)
  \/ \E f \in flights : BackendOk(f, "hi")
  \/ \E e \in persist : \E ok \in BOOLEAN : PersistDone(e, ok)

SpecBotsAudio == Init /\ [][NextBotsAudio]_vars

\* ------------------------------------------------------------------ claims
Settled == micro = <<>>

\* C1: after any sequence of Meeting registrations and disconnections, once
\* the pending asynchronous start has completed, the session is Active
\* exactly when the Meeting set is non-empty (shutdown not requested).
SessionTracksMeetings ==
  (Settled /\ shutdownPc = "idle") =>
    (isGladiaSessionActive <=> meetingBaasClients # {})

\* A Meeting registered and left, another one is registered: Active again.
SessionTracksMeetingsWitness ==
  /\ Settled /\ shutdownPc = "idle" /\ isGladiaSessionActive
  /\ \E c, d \in Conns :
       /\ role[c] = "Meeting" /\ connState[c] = "closed"
       /\ d \in meetingBaasClients

\* C2: at most one flush is in flight at any instant, and while one is in
\* flight the in-flight marker is set, so a timer firing then starts nothing.
AtMostOneFlush ==
  /\ Cardinality(flights) <= 1
  /\ flights # {} => isProcessing

\* A flush is in flight after an earlier one was answered, with audio pending
\* and the timer armed: the next firing finds the flush running.
AtMostOneFlushWitness ==
  /\ flights # {} /\ answers # <<>>
  /\ audioBuffer # <<>> /\ timers # {}

\* C3: at the moment the session becomes Inactive no flush is in flight and
\* the Audio Segment is empty.
EndAwaitsFinalFlush ==
  [][(isGladiaSessionActive /\ ~isGladiaSessionActive') =>
       (flights' = {} /\ audioBuffer' = <<>>)]_vars

\* C4: at most one flush timer is armed at any time, it is the one the
\* batcher holds the handle of, and none is armed once the session has ended.
AtMostOneTimer ==
  /\ Cardinality(timers) <= 1
  /\ timers = IF processingInterval = NoTimer THEN {} ELSE {processingInterval}
  /\ (Settled /\ ~isGladiaSessionActive) => timers = {}

\* Two Meeting connections are registered in one session: the second
\* registration found the session Active and armed nothing.
AtMostOneTimerWitness ==
  /\ Cardinality(meetingBaasClients) >= 2
  /\ isGladiaSessionActive /\ timers # {}

\* C5: when shutdown reports done, the timer is cancelled, the last flush of
\* pending audio has completed and every Meeting and Bot connection is closed.
ShutdownDoneAfterLastFlush ==
  shutdownPc = "done" =>
    /\ timers = {}
    /\ flights = {} /\ audioBuffer = <<>>
    /\ \A c \in Conns : role[c] # "Unassigned" => connState[c] = "closed"

\* An event of flush n carrying text, final
EventsOf(n, text) ==
  {j \in 1..Len(emitted) :
     emitted[j].n = n /\ emitted[j].body = text /\ emitted[j].isFinal}

\* C6: every flush whose backend submission succeeds emits exactly one
\* Transcript Event with isFinal = true carrying the returned text, for
\* timer-driven and final flushes alike.  Stated here for the answers with
\* non-empty text; C9 is about the empty ones.
SuccessfulFlushEmitsOnce ==
  \A i \in 1..Len(answers) :
    (answers[i].ok /\ answers[i].text # "") =>
      Cardinality(EventsOf(answers[i].id, answers[i].text)) = 1

\* C7: whenever no flush is in flight, no staged scratch file exists.
NoScratchFileOutlivesFlush == flights = {} => files = {}

\* Position of flush n in the order the flushes completed
CompletionPos(n) == CHOOSE k \in 1..Len(answers) : answers[k].id = n

\* C8: Transcript Events reach the Bot in the order their flushes completed.
TranscriptsSentInFlushOrder ==
  \A i, j \in 1..Len(botSent) :
    (i < j /\ botSent[i].kind = "transcription"
       /\ botSent[j].kind = "transcription") =>
      CompletionPos(botSent[i].n) < CompletionPos(botSent[j].n)

\* C9 as claimed: a successful answer with empty text still emits a
\* Transcript Event with empty text.
EmptyTextStillEmitted ==
  \A i \in 1..Len(answers) :
    (answers[i].ok /\ answers[i].text = "") =>
      EventsOf(answers[i].id, "") # {}

\* C9 as amended: a successful answer with empty text emits no Transcript
\* Event, nothing of that flush is persisted or sent to the Bot, and the
\* flush ends normally (not in flight, marker cleared unless a later flush
\* runs).
EmptyTextSuppressed ==
  \A i \in 1..Len(answers) :
    (answers[i].ok /\ answers[i].text = "") =>
      /\ \A j \in 1..Len(emitted) : emitted[j].n # answers[i].id
      /\ \A e \in persist : e.n # answers[i].id
      /\ \A j \in 1..Len(botSent) :
           botSent[j].kind = "transcription" => botSent[j].n # answers[i].id
      /\ \A f \in flights : f.id # answers[i].id
      /\ flights = {} => ~isProcessing

\* A timer-driven flush was answered with empty text while a Bot is open.
EmptyTextSuppressedWitness ==
  /\ IsOpen(botClient) /\ isGladiaSessionActive
  /\ \E i \in 1..Len(answers) : answers[i].ok /\ answers[i].text = ""

\* The role the claim assigns to a first message: Bot for JSON with
\* type == "register" and client == "bot", Meeting for everything else.
ClaimedRole(payload) == IF payload = "REG_BOT" THEN "Bot" ELSE "Meeting"

\* C10: the first message on a connection assigns its role, once and for
\* good: Bot for a bot registration and Meeting otherwise (parse failure
\* included), every first message yields a role, exactly the handler of that
\* role is attached, and the first message is not run by that handler (it
\* appends no audio, changes no Speaker State and is forwarded to nobody).
RoleAssignedOnceByFirstMessage ==
  [][\A c \in Conns :
       /\ role[c] # "Unassigned" =>
            /\ role'[c] = role[c]
            /\ handlers'[c] = handlers[c]
            /\ firstMsg'[c] = firstMsg[c]
       /\ (role[c] = "Unassigned" /\ firstMsg'[c] # firstMsg[c]) =>
            /\ role'[c] = ClaimedRole(firstMsg'[c])
            /\ handlers'[c] = {IF role'[c] = "Bot" THEN "bot" ELSE "meeting"}
            /\ UNCHANGED <<audioBuffer, lastSpeaker, botSent, meetingSent>>
       /\ (role[c] = "Unassigned" /\ firstMsg'[c] = firstMsg[c]) =>
            (role'[c] = "Unassigned" /\ handlers'[c] = {})]_vars

\* One connection became the Bot by a bot registration, another became a
\* Meeting connection by a first message whose classification threw (null).
RoleAssignedOnceWitness ==
  \E b, c \in Conns :
    /\ role[b] = "Bot" /\ firstMsg[b] = "REG_BOT" /\ handlers[b] = {"bot"}
    /\ role[c] = "Meeting" /\ firstMsg[c] = "NULL"
    /\ handlers[c] = {"meeting"}

\* C11: a message received on the Bot connection is sent exactly once to each
\* Meeting connection that is in the Meeting set and open at that moment,
\* and to no other connection; with an empty Meeting set nothing is sent, and
\* the handler completes leaving the relay's state as it was.
BotMessageFansOutToOpenMeetings ==
  [][\A c \in Conns : \A m \in BotMsgs :
       BotMessage(c, m) =>
         /\ \A d \in Conns :
              IF role[d] = "Meeting" /\ d \in meetingBaasClients
                   /\ connState[d] = "open"
                THEN /\ Len(meetingSent'[d]) = Len(meetingSent[d]) + 1
                     /\ SubSeq(meetingSent'[d], 1, Len(meetingSent[d]))
                          = meetingSent[d]
                     /\ meetingSent'[d][Len(meetingSent'[d])] = m.body
                ELSE meetingSent'[d] = meetingSent[d]
         /\ meetingBaasClients = {} => meetingSent' = meetingSent
         /\ UNCHANGED <<connVars, proxyVars, batcherVars, botSent>>]_vars

\* A Bot message reached a Meeting connection that has since left OPEN and
\* is still in the Meeting set: a further Bot message skips it.
BotMessageFansOutWitness ==
  \E b, d \in Conns :
    /\ IsOpen(b) /\ "bot" \in handlers[b]
    /\ d \in meetingBaasClients /\ connState[d] = "closing"
    /\ meetingSent[d] # <<>>

\* The connection the Bot reference should hold under replace-on-register,
\* clear-on-close: the latest connection set up as Bot, until its own close
\* event has been handled.
LatestBot ==
  IF botRegistrations = <<>> THEN NoConn
  ELSE LET b == botRegistrations[Len(botRegistrations)]
       IN IF connState[b] = "closed" THEN NoConn ELSE b

\* C12: every message a Meeting connection sends after its first one is
\* forwarded exactly once, as the latest send, to the Bot connection whenever
\* the latest registered Bot has not disconnected and is open, whichever
\* branch the message took; the earlier sends keep their order.
MeetingMessageReachesOpenBot ==
  [][\A c \in Conns : \A m \in BotsMeetingMsgs :
       MeetingMessage(c, m) =>
         /\ Len(botSent') <= Len(botSent) + 1
         /\ SubSeq(botSent', 1, Len(botSent)) = botSent
         /\ IsOpen(LatestBot) =>
              /\ Len(botSent') = Len(botSent) + 1
              /\ botSent'[Len(botSent')] =
                   [to |-> LatestBot, kind |-> "message",
                    body |-> toString(m).body, n |-> m.chunk,
                    isFinal |-> FALSE]]_vars


\* C13: a Meeting message is handed to the batcher's append exactly when it
\* is binary, fails to parse as JSON and the session is Active; every other
\* message (raw audio while Inactive, speaker-activity events, control and
\* text payloads) leaves the Audio Segment and the batcher as they were.
OnlyUnparsableBinaryAppended ==
  [][\A c \in Conns : \A m \in RelayMeetingMsgs :
       MeetingMessage(c, m) =>
         IF m.isBuffer /\ ~JSONParse(toString(m).body).ok
              /\ isGladiaSessionActive
           THEN audioBuffer' = Append(audioBuffer, m.chunk)
           ELSE UNCHANGED batcherVars]_vars


\* The bytes of an Audio Segment: its chunks concatenated in append order
SegmentBytes(segment) ==
  Concat([i \in 1..Len(segment) |-> ChunkBytes(segment[i])])

\* C14: no step submits anything while the Audio Segment is empty; a timer
\* firing that finds a non-empty segment of N bytes and no flush in flight
\* leaves the segment empty and exactly one new submission suspended in the
\* backend call, whose container has 44 + N bytes and carries the pending
\* chunks concatenated in append order after the header.
FlushSubmitsWholeSegment ==
  [][/\ audioBuffer = <<>> => flights' \subseteq flights
     /\ \A t \in timers :
          TimerFire(t) /\ audioBuffer # <<>> /\ ~isProcessing =>
            /\ audioBuffer' = <<>>
            /\ \E f \in flights' :
                 /\ f \notin flights
                 /\ flights' = flights \cup {f}
                 /\ Len(f.wav) = 44 + Len(SegmentBytes(audioBuffer))
                 /\ SubSeq(f.wav, 45, Len(f.wav)) = SegmentBytes(audioBuffer)
    ]_vars


\* C15: when a backend submission fails, nothing propagates (connections,
\* relay state and shutdown position stay as they were, nothing is emitted
\* or sent), the audio of that flush is not put back into the Audio Segment
\* and not resubmitted, and the in-flight marker is cleared; the next timer
\* firing that finds a non-empty segment submits it.
FailedFlushIsDroppedAndNextSubmits ==
  [][/\ \A f \in flights :
          BackendFail(f) =>
            /\ UNCHANGED <<connVars, proxyVars, botSent, meetingSent, emitted,
                           persist, micro, shutdownPc>>
            /\ audioBuffer' = audioBuffer
            /\ flights' = flights \ {f}
            /\ \A i \in 1..Len(f.chunks) :
                 /\ \A j \in 1..Len(audioBuffer') :
                      audioBuffer'[j] # f.chunks[i]
                 /\ \A g \in flights' : \A j \in 1..Len(g.chunks) :
                      g.chunks[j] # f.chunks[i]
            /\ ~isProcessing'
     /\ \A t \in timers :
          /\ TimerFire(t)
          /\ answers # <<>> /\ ~answers[Len(answers)].ok
          /\ audioBuffer # <<>> /\ ~isProcessing
          => \E g \in flights' :
               g \notin flights /\ g.chunks = audioBuffer /\ isProcessing'
    ]_vars


\* C16: when a Meeting connection's close is handled while the session is
\* Active, then if it was the last one the session becomes Inactive, the
\* timer is cancelled and exactly one final flush takes the pending Audio
\* Segment (none is submitted when the segment is empty); if another
\* Meeting connection remains the session stays Active and the batcher is
\* left as it was.
LastMeetingCloseEndsWithOneFlush ==
  [][\A c \in Conns :
       CloseEvent(c) /\ "meeting" \in handlers[c] /\ isGladiaSessionActive =>
         IF meetingBaasClients \ {c} = {}
           THEN /\ ~isGladiaSessionActive'
                /\ timers' = {} /\ processingInterval' = NoTimer
                /\ IF audioBuffer = <<>>
                     THEN flights' = flights /\ audioBuffer' = <<>>
                     ELSE /\ audioBuffer' = <<>>
                          /\ Cardinality(flights' \ flights) <= 1
                          /\ flights \subseteq flights'
                          /\ \A f \in flights' \ flights :
                               f.chunks = audioBuffer
                          /\ tempDirExists => flights' # flights
           ELSE /\ isGladiaSessionActive'
                /\ UNCHANGED batcherVars]_vars


\* C17: a request to end the session made while it is Inactive (a Meeting
\* connection's close, or shutdown) submits nothing and leaves the batcher's
\* state and resources as they were, and the session stays Inactive; in
\* every state, ending twice in a row gives the batcher a single end gives.
EndWhileInactiveIsNoOp ==
  [][/\ endSession(endSession(Batcher)) = endSession(Batcher)
     /\ ~isGladiaSessionActive
          /\ (Shutdown \/ \E c \in Conns :
                            CloseEvent(c) /\ "meeting" \in handlers[c])
          => /\ UNCHANGED batcherVars
             /\ ~isGladiaSessionActive'
             /\ UNCHANGED <<answers, emitted, botSent>>]_vars

\* Shutdown has completed with the session ended once and a later request
\* to end it made while Inactive, and audio that the end left pending is
\* still in the Audio Segment with no flush in flight.
EndWhileInactiveWitness ==
  /\ shutdownPc = "done"
  /\ ~isGladiaSessionActive
  /\ audioBuffer # <<>> /\ ~isProcessing /\ flights = {}


\* C18: the Speaker State is updated (and the update logged) by a step only
\* if the step handles a binary speaker-activity event with isSpeaking true
\* whose name differs from the current Speaker State, and every such event
\* updates it once; the same event again, or an event with isSpeaking false,
\* updates nothing.  Whether or not it updates, a speaker-activity event is
\* forwarded to the Bot connection if open and nothing is appended.
SpeakerStateUpdatesOnRisingEdge ==
  [][/\ (lastSpeaker' # lastSpeaker \/ speakerLog' # speakerLog) =>
          \E c \in Conns : \E m \in RelayMeetingMsgs :
            /\ MeetingMessage(c, m)
            /\ m.isBuffer
            /\ JSONParse(m.body).kind = "speakers"
            /\ JSONParse(m.body).isSpeaking
            /\ JSONParse(m.body).name # lastSpeaker
     /\ \A c \in Conns : \A m \in RelayMeetingMsgs :
          MeetingMessage(c, m) /\ m.isBuffer
            /\ JSONParse(m.body).kind = "speakers" =>
              /\ IF JSONParse(m.body).isSpeaking
                      /\ JSONParse(m.body).name # lastSpeaker
                   THEN /\ lastSpeaker' = JSONParse(m.body).name
                        /\ speakerLog' =
                             Append(speakerLog, JSONParse(m.body).name)
                   ELSE UNCHANGED <<lastSpeaker, speakerLog>>
              /\ botSent' =
                   IF IsOpen(botClient)
                     THEN Append(botSent,
                                 [to |-> botClient, kind |-> "message",
                                  body |-> m.body, n |-> m.chunk,
                                  isFinal |-> FALSE])
                     ELSE botSent
              /\ UNCHANGED <<batcherVars, meetingSent>>]_vars

\* The same speaking event was handled twice in a row (the Bot connection
\* received both) and the Speaker State was updated once.
SpeakerStateWitness ==
  /\ Len(botSent) = 2
  /\ botSent[1].body = "SPK_A_ON" /\ botSent[2].body = "SPK_A_ON"
  /\ speakerLog = <<"A">> /\ lastSpeaker = "A"


\* C19: a step that finalizes a Transcript Event starts exactly one
\* appendTranscription call for it when the session identifier is known and
\* none otherwise, and no other step starts one; when the call settles,
\* failed or not, the relay's state is as it was, the call is not made again,
\* and the event is sent to the latest registered Bot if that Bot has not
\* disconnected and is open.
PersistOnceAndForwardDespiteFailure ==
  [][/\ \A f \in flights :
          BackendOk(f, "hi") /\ emitted' # emitted =>
            LET e == Transcription(f.id, "hi", TRUE)
            IN /\ persistLog' = persistLog
               /\ IF activeBotId
                    THEN /\ e \notin persist
                         /\ persist' = persist \cup {e}
                         /\ \A i \in 1..Len(persistLog) : persistLog[i].n # e.n
                    ELSE persist' = persist
     /\ persist' \ persist # {} => emitted' # emitted /\ activeBotId
     /\ \A e \in persist : \A ok \in BOOLEAN :
          PersistDone(e, ok) =>
            /\ UNCHANGED <<connVars, proxyVars, batcherVars, shutdownPc,
                           emitted>>
            /\ persist' = persist \ {e}
            /\ Len(botSent') <= Len(botSent) + 1
            /\ IsOpen(LatestBot) =>
                 botSent' = Append(botSent, [e EXCEPT !.to = LatestBot])
    ]_vars


\* Little-endian unsigned integers read back from bytes
U16(b) == b[1] + 256 * b[2]
U32(b) == b[1] + 256 * b[2] + 65536 * b[3] + 16777216 * b[4]

\* C20: the header getWavHeader returns for a dataLength, sampleRate and
\* channel count has 44 bytes and holds, little-endian, ChunkSize =
\* 36 + dataLength, Subchunk1Size = 16, AudioFormat = 1, the channel count,
\* the sample rate, ByteRate = sampleRate * channels * 2, BlockAlign =
\* channels * 2, bits-per-sample = 16 and Subchunk2Size = dataLength; for
\* dataLength 32000, sampleRate 16000 and 1 channel it is the golden bytes.
WavHeaderFields ==
  wavHeader # <<>> =>
    /\ Len(wavHeader) = 44
    /\ \A i \in 1..44 : wavHeader[i] \in 0..255
    /\ U32(SubSeq(wavHeader, 5, 8)) = 36 + wavArgs.dataLength
    /\ U32(SubSeq(wavHeader, 17, 20)) = 16
    /\ U16(SubSeq(wavHeader, 21, 22)) = 1
    /\ U16(SubSeq(wavHeader, 23, 24)) = wavArgs.numChannels
    /\ U32(SubSeq(wavHeader, 25, 28)) = wavArgs.sampleRate
    /\ U32(SubSeq(wavHeader, 29, 32))
         = wavArgs.sampleRate * wavArgs.numChannels * 2
    /\ U16(SubSeq(wavHeader, 33, 34)) = wavArgs.numChannels * 2
    /\ U16(SubSeq(wavHeader, 35, 36)) = 16
    /\ U32(SubSeq(wavHeader, 41, 44)) = wavArgs.dataLength
    /\ wavArgs = [dataLength |-> 32000, sampleRate |-> 16000,
                  numChannels |-> 1] =>
         wavHeader = <<82, 73, 70, 70, 36, 125, 0, 0, 87, 65, 86, 69,
                       102, 109, 116, 32, 16, 0, 0, 0, 1, 0, 1, 0,
                       128, 62, 0, 0, 0, 125, 0, 0, 2, 0, 16, 0,
                       100, 97, 116, 97, 0, 125, 0, 0>>

\* The header for dataLength 32000, sampleRate 16000, 1 channel was produced.
WavHeaderWitness ==
  /\ wavHeader # <<>>
  /\ wavArgs = [dataLength |-> 32000, sampleRate |-> 16000, numChannels |-> 1]


\* The audio pipeline under the scheduling the event loop gives: an armed
\* timer keeps firing, the backend answers every submission, and pending
\* microtasks and persistence calls complete.
SpecLive ==
  /\ Init /\ [][Next]_vars
  /\ WF_vars(\E t \in timers : TimerFire(t))
  /\ WF_vars(\E f \in flights : \E text \in Texts : BackendOk(f, text))
  /\ WF_vars(InitThen)
  /\ WF_vars(ShutdownResume)
  /\ WF_vars(\E e \in persist : PersistDone(e, TRUE))

\* The chunk ids held by a list of chunks
ChunksOf(segment) == {segment[i] : i \in 1..Len(segment)}

\* C21: a chunk enters the Audio Segment only by a fresh append and a new
\* container takes the whole segment, so no chunk is in two containers; and
\* every chunk in the Audio Segment is eventually in a container submitted
\* to the backend, whether it was appended while a flush was in flight or
\* was pending when the session was ended.
EveryChunkSubmittedOnce ==
  /\ [][/\ ChunksOf(audioBuffer') \ ChunksOf(audioBuffer) \subseteq {nextChunk}
        /\ \A f \in flights' \ flights :
             /\ f.chunks = audioBuffer
             /\ audioBuffer' = <<>>]_vars
  /\ \A k \in 1..MaxMsgs :
       (k \in ChunksOf(audioBuffer))
         ~> (\E f \in flights : k \in ChunksOf(f.chunks))


\* C22: once a second Bot has registered, everything sent to a Bot goes to
\* the latest registered connection, and a message received on a connection
\* that registered as Bot earlier is not forwarded to any Meeting connection.
LatestRegistrationIsSoleBot ==
  [][Len(botRegistrations) >= 2 =>
       LET new == botRegistrations[Len(botRegistrations)]
       IN /\ Len(botSent') > Len(botSent) =>
               botSent'[Len(botSent')].to = new
          /\ \A c \in Conns \ {new} : \A m \in BotMsgs :
               BotMessage(c, m) => meetingSent' = meetingSent]_vars


\* C23: the Bot reference is cleared only by the step that handles the close
\* of the connection it holds; the close of any other connection leaves the
\* reference as it was.
BotReferenceClearedOnlyByHolder ==
  [][/\ botClient # NoConn /\ botClient' = NoConn => CloseEvent(botClient)
     /\ \A c \in Conns \ {botClient} : CloseEvent(c) => botClient' = botClient
    ]_vars


\* C24: a Meeting message handled while no registered Bot is open is not
\* sent to any Bot, then or later (a forwarded message is always the one
\* the step handles), and a Transcript Event is only ever sent to a
\* connection that had registered as Bot before the event was emitted.
NothingKeptForLaterBot ==
  [][/\ \A c \in Conns : \A m \in MeetingMsgs :
          MeetingMessage(c, m) /\ ~IsOpen(LatestBot) => botSent' = botSent
     /\ Len(botSent') > Len(botSent) =>
          LET e == botSent'[Len(botSent')]
          IN IF e.kind = "message"
               THEN \E c \in Conns : \E m \in MeetingMsgs :
                      MeetingMessage(c, m) /\ e.n = m.chunk
               ELSE \E j \in 1..Len(emitted') :
                      /\ emitted'[j].n = e.n
                      /\ \E i \in 1..botsAtEmit'[j] :
                           botRegistrations[i] = e.to]_vars


\* C25: in a session started after an earlier one ended (its timer is not
\* the first interval the batcher armed), a timer firing that finds a
\* non-empty Audio Segment and no flush in flight stages a scratch file and
\* reaches the backend submission with the pending chunks.
LaterSessionFlushReachesBackend ==
  [][\A t \in timers :
       TimerFire(t) /\ t > 1 /\ audioBuffer # <<>> /\ ~isProcessing =>
         /\ isProcessing'
         /\ \E f \in flights' \ flights :
              f.chunks = audioBuffer /\ f.id \in files']_vars


\* C26: after every step the Meeting set is the set of connections
\* classified as Meeting whose close has not been handled; the step that
\* handles a Meeting connection's close removes that connection only and
\* leaves every other connection, the Bot reference, the Speaker State and
\* everything sent so far as they were; and a message received on a Meeting
\* connection is sent to no Meeting connection.
MeetingSetIsOpenMeetings ==
  [][/\ meetingBaasClients' =
          {c \in Conns : role'[c] = "Meeting" /\ connState'[c] # "closed"}
     /\ \A c \in Conns :
          CloseEvent(c) /\ role[c] = "Meeting" =>
            /\ meetingBaasClients' = meetingBaasClients \ {c}
            /\ \A d \in Conns \ {c} : connState'[d] = connState[d]
            /\ UNCHANGED <<role, handlers, botClient, lastSpeaker, botSent,
                           meetingSent>>
     /\ \A c \in Conns : \A m \in RelayMeetingMsgs :
          MeetingMessage(c, m) => meetingSent' = meetingSent]_vars

\* One Meeting connection's close has been handled while another Meeting
\* connection is still in the set and a Speaker State is recorded.
MeetingSetWitness ==
  \E c, d \in Conns :
    /\ role[c] = "Meeting" /\ connState[c] = "closed"
    /\ role[d] = "Meeting" /\ connState[d] = "open"
    /\ meetingBaasClients = {d}
    /\ lastSpeaker # ""

=============================================================================
